---- MODULE Spec2Model ----
(***************************************************************************)
(* Console connection table (kernel/src/vmm/console.rs) and hypercall      *)
(* dispatcher (kernel/src/vmm/hvc.rs) of axvisor.                          *)
(*                                                                         *)
(*   Spec      the Connection Table driven by direct calls of              *)
(*             establish_connection / remove_connection, each call one     *)
(*             step (the body runs under the lock); get_buffers reads it.  *)
(*   SpecLock  the same calls and get_buffers statement by statement, on   *)
(*             several vCPUs, with the lock explicit.                      *)
(*   SpecTable the calls of Spec without its history.                      *)
(*   SpecBuf   SpecLock with direct calls of the public                    *)
(*             ConsoleBuffer::alloc and ConsoleBuffer::dealloc, which      *)
(*             take no lock.                                               *)
(*   SpecHvc   HyperCall::new and HyperCall::execute on several vCPUs for  *)
(*             the console, SendIPI and unserved opcodes, a table call     *)
(*             being one step.                                             *)
(*   SpecIvc   the same for the four IVC opcodes, each call of the         *)
(*             registry or of the VM being one step.                       *)
(***************************************************************************)
EXTENDS Integers, Sequences, FiniteSets, TLC

\* ------------------------------------------------------------------ bounds
NumVms == 2          \* VM ids are 1..NumVms
NumAddrs == 4        \* host addresses the page allocator can hand out
NumCpus == 2         \* vCPUs that call into the table concurrently
MaxPeers == 2        \* longest well-formed peer list a hypercall carries
MaxCalls == 2        \* traps taken in one run of SpecHvc
MaxIvcCalls == 3     \* traps taken in one run of SpecIvc
MaxDirect == 1       \* direct ConsoleBuffer calls in one run of SpecBuf
MaxRef == 3          \* cap on ref_count (guards the establish step)

\* ------------------------------------------------------- program constants
PAGE_SIZE_4K == 4096

VmIds == 1..NumVms
Addrs == 1..NumAddrs
Cpus == 1..NumCpus
\* The only size the dispatcher passes to establish_connection.
buffer_size == 4096
Keys == VmIds \X VmIds

\* A failed allocation is the allocator's null answer; Option::None and a
\* failed AxResult carry no buffers.
NULL == 0
None == <<>>

\* ------------------------------------------------------------ BTreeMap ops
contains_key(m, k) == k \in DOMAIN m
insert(m, k, e) == [x \in (DOMAIN m) \cup {k} |-> IF x = k THEN e ELSE m[x]]
remove(m, k) == [x \in (DOMAIN m) \ {k} |-> m[x]]
EmptyMap == [x \in {} |-> 0]

\* --------------------------------------------------------- ConsoleBuffer
\* num_frames = (buffer_size + PAGE_SIZE_4K - 1) / PAGE_SIZE_4K
num_frames(size) == (size + PAGE_SIZE_4K - 1) \div PAGE_SIZE_4K

\* The page allocator: hp[a] is the number of bytes allocated at base a
\* (0 when free).  An allocation yields any free base, or fails (the
\* allocator is shared with the rest of the kernel, so it can fail at any
\* time); the code takes whatever address alloc_pages answers.
FreeBases(hp) == {a \in Addrs : hp[a] = 0}
AllocOutcomes(hp) == FreeBases(hp) \cup {NULL}

\* ConsoleBuffer::alloc with the allocator's answer r (a base or NULL): the
\* heap after the call, and Ok(buffer) (ok) or Err(NoMemory) (~ok).
alloc(hp, size, owner_vm_id, peer_vm_id, r) ==
    [heap |-> IF r = NULL THEN hp
              ELSE [hp EXCEPT ![r] = num_frames(size) * PAGE_SIZE_4K],
     ok   |-> r # NULL,
     buf  |-> [owner_vm_id |-> owner_vm_id, peer_vm_id |-> peer_vm_id,
               buffer_base |-> r, buffer_size |-> size]]

\* What the allocator does with a release of memory it does not hold with
\* that layout (undefined behaviour): it ignores it, or frees the base.
UBOutcomes == {"ignore", "free"}

\* ConsoleBuffer::dealloc: the layout is recomputed from buffer_size.
dealloc(hp, buf, ub) ==
    LET bytes == num_frames(buf.buffer_size) * PAGE_SIZE_4K
        good  == hp[buf.buffer_base] = bytes
    IN  [heap |-> IF good \/ ub = "free"
                  THEN [hp EXCEPT ![buf.buffer_base] = 0] ELSE hp,
         bad  |-> ~good]

\* ------------------------------------------------ ConsoleConnectionManager
\* establish_connection as it would be without lines 75-77: on reuse only the
\* (vm1, vm2) entry is incremented.
establish_connection_one_sided(conns, hp, vm1, vm2, size, r1, r2) ==
    IF contains_key(conns, <<vm1, vm2>>)
    THEN LET c1 == [conns EXCEPT ![<<vm1, vm2>>].ref_count = @ + 1]
             entry == c1[<<vm1, vm2>>]
         IN  [connections |-> c1, heap |-> hp, ok |-> TRUE,
              ret |-> <<entry.buf1, entry.buf2>>, allocs |-> {}]
    ELSE LET a1 == alloc(hp, size, vm1, vm2, r1)
             a2 == alloc(a1.heap, size, vm2, vm1, r2)
         IN  IF ~a1.ok
             THEN [connections |-> conns, heap |-> a1.heap, ok |-> FALSE,
                   ret |-> None, allocs |-> {}]
             ELSE IF ~a2.ok
             THEN [connections |-> conns, heap |-> a2.heap, ok |-> FALSE,
                   ret |-> None, allocs |-> {r1}]
             ELSE [connections |->
                     insert(insert(conns, <<vm1, vm2>>,
                              [buf1 |-> a1.buf, buf2 |-> a2.buf, ref_count |-> 1]),
                            <<vm2, vm1>>,
                            [buf1 |-> a2.buf, buf2 |-> a1.buf, ref_count |-> 1]),
                   heap |-> a2.heap, ok |-> TRUE,
                   ret |-> <<a1.buf, a2.buf>>, allocs |-> {r1, r2}]

\* establish_connection as it would be with lines 95-96 not swapping the two
\* buffers in the (vm2, vm1) entry.
establish_connection_same_mirror(conns, hp, vm1, vm2, size, r1, r2) ==
    IF contains_key(conns, <<vm1, vm2>>)
    THEN establish_connection_one_sided(
             IF contains_key(conns, <<vm2, vm1>>) /\ vm1 # vm2
             THEN [conns EXCEPT ![<<vm2, vm1>>].ref_count = @ + 1] ELSE conns,
             hp, vm1, vm2, size, r1, r2)
    ELSE LET res == establish_connection_one_sided(conns, hp, vm1, vm2, size, r1, r2)
         IN  IF ~res.ok THEN res
             ELSE [res EXCEPT !.connections =
                     insert(@, <<vm2, vm1>>, res.connections[<<vm1, vm2>>])]

\* establish_connection, the whole body under the lock.  r1, r2 are the
\* allocator's answers to the two allocations (unused on the reuse path).
establish_connection(conns, hp, vm1, vm2, size, r1, r2) ==
    IF contains_key(conns, <<vm1, vm2>>)
    THEN LET c1 == [conns EXCEPT ![<<vm1, vm2>>].ref_count = @ + 1]
             c2 == IF contains_key(c1, <<vm2, vm1>>)
                   THEN [c1 EXCEPT ![<<vm2, vm1>>].ref_count = @ + 1]
                   ELSE c1
             entry == c2[<<vm1, vm2>>]
         IN  [connections |-> c2, heap |-> hp, ok |-> TRUE,
              ret |-> <<entry.buf1, entry.buf2>>, allocs |-> {}]
    ELSE LET a1 == alloc(hp, size, vm1, vm2, r1)
         IN  IF ~a1.ok
             THEN [connections |-> conns, heap |-> a1.heap, ok |-> FALSE,
                   ret |-> None, allocs |-> {}]
             ELSE LET a2 == alloc(a1.heap, size, vm2, vm1, r2)
                  IN  IF ~a2.ok
                      THEN [connections |-> conns, heap |-> a2.heap, ok |-> FALSE,
                            ret |-> None, allocs |-> {r1}]
                      ELSE LET buf1 == a1.buf
                               buf2 == a2.buf
                               c1 == insert(conns, <<vm1, vm2>>,
                                       [buf1 |-> buf1, buf2 |-> buf2, ref_count |-> 1])
                               c2 == insert(c1, <<vm2, vm1>>,
                                       [buf1 |-> buf2, buf2 |-> buf1, ref_count |-> 1])
                           IN  [connections |-> c2, heap |-> a2.heap, ok |-> TRUE,
                                ret |-> <<buf1, buf2>>, allocs |-> {r1, r2}]

\* remove_connection as it would be without the erasure of the reverse
\* mapping (lines 135 and 138): the released buffers stay in the mirror.
remove_connection_keeps_mirror(conns, hp, vm1, vm2, ub) ==
    IF ~contains_key(conns, <<vm1, vm2>>)
    THEN [connections |-> conns, heap |-> hp, bad |-> FALSE,
          hit |-> FALSE, freed |-> {}]
    ELSE LET c1 == IF conns[<<vm1, vm2>>].ref_count > 0
                   THEN [conns EXCEPT ![<<vm1, vm2>>].ref_count = @ - 1]
                   ELSE conns
             new_count == c1[<<vm1, vm2>>].ref_count
             c2 == IF contains_key(c1, <<vm2, vm1>>) /\ c1[<<vm2, vm1>>].ref_count > 0
                   THEN [c1 EXCEPT ![<<vm2, vm1>>].ref_count = @ - 1]
                   ELSE c1
         IN  IF new_count = 0
             THEN LET entry == c2[<<vm1, vm2>>]
                      d1 == dealloc(hp, entry.buf1, ub)
                      d2 == dealloc(d1.heap, entry.buf2, ub)
                  IN  [connections |-> remove(c2, <<vm1, vm2>>), heap |-> d2.heap,
                       bad |-> d1.bad \/ d2.bad, hit |-> TRUE,
                       freed |-> {entry.buf1.buffer_base, entry.buf2.buffer_base}]
             ELSE [connections |-> c2, heap |-> hp,
                   bad |-> FALSE, hit |-> TRUE, freed |-> {}]

\* remove_connection as it would be without lines 129-138: the counts are
\* decremented and no entry is ever erased.
remove_connection_no_erase(conns, hp, vm1, vm2, ub) ==
    IF ~contains_key(conns, <<vm1, vm2>>)
    THEN [connections |-> conns, heap |-> hp, bad |-> FALSE,
          hit |-> FALSE, freed |-> {}]
    ELSE LET c1 == IF conns[<<vm1, vm2>>].ref_count > 0
                   THEN [conns EXCEPT ![<<vm1, vm2>>].ref_count = @ - 1]
                   ELSE conns
             c2 == IF contains_key(c1, <<vm2, vm1>>) /\ c1[<<vm2, vm1>>].ref_count > 0
                   THEN [c1 EXCEPT ![<<vm2, vm1>>].ref_count = @ - 1]
                   ELSE c1
         IN  [connections |-> c2, heap |-> hp, bad |-> FALSE, hit |-> TRUE,
              freed |-> {}]

\* remove_connection as it would be without the early return of lines
\* 108-110: nothing is decremented or released, the removals still run.
remove_connection_no_check(conns, hp, vm1, vm2, ub) ==
    IF ~contains_key(conns, <<vm1, vm2>>)
    THEN [connections |-> remove(conns, <<vm2, vm1>>), heap |-> hp,
          bad |-> FALSE, hit |-> FALSE, freed |-> {}]
    ELSE LET c1 == IF conns[<<vm1, vm2>>].ref_count > 0
                   THEN [conns EXCEPT ![<<vm1, vm2>>].ref_count = @ - 1]
                   ELSE conns
             new_count == c1[<<vm1, vm2>>].ref_count
             c2 == IF contains_key(c1, <<vm2, vm1>>) /\ c1[<<vm2, vm1>>].ref_count > 0
                   THEN [c1 EXCEPT ![<<vm2, vm1>>].ref_count = @ - 1]
                   ELSE c1
         IN  IF new_count = 0
             THEN LET entry == c2[<<vm1, vm2>>]
                      d1 == dealloc(hp, entry.buf1, ub)
                      d2 == dealloc(d1.heap, entry.buf2, ub)
                  IN  [connections |-> remove(remove(c2, <<vm1, vm2>>), <<vm2, vm1>>),
                       heap |-> d2.heap,
                       bad |-> d1.bad \/ d2.bad, hit |-> TRUE,
                       freed |-> {entry.buf1.buffer_base, entry.buf2.buffer_base}]
             ELSE [connections |-> remove(c2, <<vm2, vm1>>), heap |-> hp,
                   bad |-> FALSE, hit |-> TRUE, freed |-> {}]

\* remove_connection, the whole body under the lock.
remove_connection(conns, hp, vm1, vm2, ub) ==
    IF ~contains_key(conns, <<vm1, vm2>>)
    THEN [connections |-> conns, heap |-> hp, bad |-> FALSE,
          hit |-> FALSE, freed |-> {}]
    ELSE LET c1 == IF conns[<<vm1, vm2>>].ref_count > 0
                   THEN [conns EXCEPT ![<<vm1, vm2>>].ref_count = @ - 1]
                   ELSE conns
             new_count == c1[<<vm1, vm2>>].ref_count
             c2 == IF contains_key(c1, <<vm2, vm1>>) /\ c1[<<vm2, vm1>>].ref_count > 0
                   THEN [c1 EXCEPT ![<<vm2, vm1>>].ref_count = @ - 1]
                   ELSE c1
         IN  IF new_count = 0
             THEN LET entry == c2[<<vm1, vm2>>]
                      c3 == remove(c2, <<vm1, vm2>>)
                      d1 == dealloc(hp, entry.buf1, ub)
                      d2 == dealloc(d1.heap, entry.buf2, ub)
                      c4 == remove(c3, <<vm2, vm1>>)
                  IN  [connections |-> remove(c4, <<vm2, vm1>>), heap |-> d2.heap,
                       bad |-> d1.bad \/ d2.bad, hit |-> TRUE,
                       freed |-> {entry.buf1.buffer_base, entry.buf2.buffer_base}]
             ELSE [connections |-> remove(c2, <<vm2, vm1>>), heap |-> hp,
                   bad |-> FALSE, hit |-> TRUE, freed |-> {}]

\* get_buffers: read-only lookup.
get_buffers(conns, vm1, vm2) ==
    IF contains_key(conns, <<vm1, vm2>>)
    THEN <<conns[<<vm1, vm2>>].buf1, conns[<<vm1, vm2>>].buf2>>
    ELSE None

\* ------------------------------------------------------------------- state
VARIABLES
    CONSOLE_CONNECTIONS,  \* the table: (vm, vm) -> [buf1, buf2, ref_count]
    heap,                 \* page allocator: base -> bytes allocated (0 = free)
    badFree,              \* history: some release hit memory not held
    track                 \* history: the calls made on one pair since it was
                          \* first established (see TrackEstablish)

\* The lock and the vCPUs inside a table call (specification SpecLock)
VARIABLES
    lock,                 \* the Mutex of CONSOLE_CONNECTIONS: 0, or its holder
    pc,                   \* per vCPU: the statement it is at, "idle" outside
    loc,                  \* per vCPU: arguments and locals of its call
    seqTable,             \* history: the table after running the returned
    seqHeap               \* calls one after the other; the heap likewise

\* The hypercalls in progress (specification SpecHvc)
VARIABLES
    hc,                   \* per vCPU: its HyperCall, where execute() is, result
    console,              \* per VM: the console device's (owner, peer, address)
    calls,                \* number of traps taken so far (in SpecBuf, of
                          \* direct ConsoleBuffer calls)
    held,                 \* history, per (vm, peer): the establishes of the
                          \* pair vm has made less its un-establishes, and
                          \* the buffers its latest establish returned
    channels              \* the IVC registry: (vm, key) -> subscriber VMs

tableVars == <<CONSOLE_CONNECTIONS, heap, badFree, track>>
hvcVars == <<hc, console, calls, held, channels>>
lockVars == <<lock, pc, loc, seqTable, seqHeap>>
vars == <<CONSOLE_CONNECTIONS, heap, badFree, track, lock, pc, loc, seqTable, seqHeap,
          hc, console, calls, held, channels>>

NoBuf == [owner_vm_id |-> 0, peer_vm_id |-> 0, buffer_base |-> NULL, buffer_size |-> 0]

\* No pair is being followed.
TrackOff ==
    [on |-> FALSE, a |-> 0, b |-> 0, n |-> 0, k |-> 0, first |-> <<NoBuf, NoBuf>>,
     fresh |-> FALSE, oriented |-> FALSE, ordered |-> FALSE,
     op |-> "none", vm1 |-> 0, hit |-> FALSE, ok |-> FALSE, ret |-> None,
     allocs |-> {}, freed |-> {}]

\* History of the pair {a, b} from the establish(a, b) that found no entry
\* for (a, b):  n successful establish calls and k remove calls on the pair
\* so far, in either orientation; first = the buffers that first call
\* returned; fresh = (b, a) was absent too; oriented = every call so far was
\* made as (a, b); ordered = no establish came after a remove; and the
\* latest call: op, its first argument vm1, whether it found an entry (hit),
\* ok/ret = what it returned, allocs/freed = the bases it allocated/released.
\* A call on another pair, or a call on the pair once k = n, ends the history.
TrackEstablish(conns, vm1, vm2, res) ==
    IF track.on /\ {vm1, vm2} = {track.a, track.b} /\ track.k < track.n
    THEN IF track.n >= MaxRef /\ res.ok THEN TrackOff
         ELSE [track EXCEPT
                 !.n = IF res.ok THEN @ + 1 ELSE @,
                 !.oriented = @ /\ vm1 = track.a /\ vm2 = track.b,
                 !.ordered = @ /\ track.k = 0,
                 !.op = "establish", !.vm1 = vm1,
                 !.hit = contains_key(conns, <<vm1, vm2>>),
                 !.ok = res.ok, !.ret = res.ret,
                 !.allocs = res.allocs, !.freed = {}]
    ELSE IF ~contains_key(conns, <<vm1, vm2>>) /\ res.ok
    THEN [on |-> TRUE, a |-> vm1, b |-> vm2, n |-> 1, k |-> 0, first |-> res.ret,
          fresh |-> ~contains_key(conns, <<vm2, vm1>>),
          oriented |-> TRUE, ordered |-> TRUE,
          op |-> "establish", vm1 |-> vm1, hit |-> FALSE, ok |-> TRUE,
          ret |-> res.ret, allocs |-> res.allocs, freed |-> {}]
    ELSE TrackOff

TrackRemove(vm1, vm2, res) ==
    IF track.on /\ {vm1, vm2} = {track.a, track.b} /\ track.k < track.n
    THEN [track EXCEPT
            !.k = @ + 1,
            !.oriented = @ /\ vm1 = track.a /\ vm2 = track.b,
            !.op = "remove", !.vm1 = vm1, !.hit = res.hit,
            !.ok = TRUE, !.ret = None, !.allocs = {}, !.freed = res.freed]
    ELSE TrackOff

InitTable ==
    /\ CONSOLE_CONNECTIONS = EmptyMap
    /\ heap = [a \in Addrs |-> 0]
    /\ badFree = FALSE
    /\ track = TrackOff

\* ref_count stays within MaxRef after the call (bound of the model only)
WithinRef(conns) == \A k \in DOMAIN conns : conns[k].ref_count <= MaxRef

\* The allocator's answers a call can meet: none is asked for on the reuse
\* path, and no second one after a failed first allocation.
Answers1(conns, hp, vm1, vm2) ==
    IF contains_key(conns, <<vm1, vm2>>) THEN {NULL} ELSE AllocOutcomes(hp)
Answers2(conns, hp, vm1, vm2, size, r1) ==
    IF contains_key(conns, <<vm1, vm2>>) \/ r1 = NULL THEN {NULL}
    ELSE AllocOutcomes(alloc(hp, size, vm1, vm2, r1).heap)
\* The allocator's reactions a remove can meet: a choice only when a release
\* of the call is one of memory not held.
Reactions(conns, hp, vm1, vm2) ==
    IF remove_connection(conns, hp, vm1, vm2, "ignore").bad
    THEN UBOutcomes ELSE {"ignore"}

\* Without the history of a pair, track holds of the latest call only what
\* it was, whether it found an entry for its key, and the bases it released.
LastEstablish(conns, vm1, vm2, res) ==
    [TrackOff EXCEPT !.op = "establish", !.hit = contains_key(conns, <<vm1, vm2>>)]
LastRemove(vm1, vm2, res) ==
    [TrackOff EXCEPT !.op = "remove", !.hit = res.hit, !.freed = res.freed]

\* One call of ConsoleConnectionManager::establish_connection(vm1, vm2, size),
\* the history of the pair followed or not.
EstablishCall(vm1, vm2, size, follow) ==
    \E r1 \in Answers1(CONSOLE_CONNECTIONS, heap, vm1, vm2) :
      \E r2 \in Answers2(CONSOLE_CONNECTIONS, heap, vm1, vm2, size, r1) :
        LET res == establish_connection(CONSOLE_CONNECTIONS, heap, vm1, vm2,
                                        size, r1, r2)
        IN  /\ WithinRef(res.connections)
            /\ CONSOLE_CONNECTIONS' = res.connections
            /\ heap' = res.heap
            /\ track' = IF follow
                        THEN TrackEstablish(CONSOLE_CONNECTIONS, vm1, vm2, res)
                        ELSE LastEstablish(CONSOLE_CONNECTIONS, vm1, vm2, res)
            /\ UNCHANGED <<badFree, lockVars, hvcVars>>

\* One call of ConsoleConnectionManager::remove_connection(vm1, vm2).
RemoveCall(vm1, vm2, follow) ==
    \E ub \in Reactions(CONSOLE_CONNECTIONS, heap, vm1, vm2) :
        LET res == remove_connection(CONSOLE_CONNECTIONS, heap, vm1, vm2, ub)
        IN  /\ CONSOLE_CONNECTIONS' = res.connections
            /\ heap' = res.heap
            /\ badFree' = (badFree \/ res.bad)
            /\ track' = IF follow THEN TrackRemove(vm1, vm2, res)
                        ELSE LastRemove(vm1, vm2, res)
            /\ UNCHANGED <<lockVars, hvcVars>>

Establish(vm1, vm2, size) == EstablishCall(vm1, vm2, size, TRUE)
Remove(vm1, vm2) == RemoveCall(vm1, vm2, TRUE)

Next ==
    \/ \E vm1 \in VmIds, vm2 \in VmIds : Establish(vm1, vm2, buffer_size)
    \/ \E vm1 \in VmIds, vm2 \in VmIds : Remove(vm1, vm2)

NextTable ==
    \/ \E vm1 \in VmIds, vm2 \in VmIds : EstablishCall(vm1, vm2, buffer_size, FALSE)
    \/ \E vm1 \in VmIds, vm2 \in VmIds : RemoveCall(vm1, vm2, FALSE)

\* A vCPU outside the table functions has no locals.
NoLocals == [op |-> "none"]

\* The locals of a call that has just been entered.
Locals ==
    [op |-> "none", vm1 |-> 0, vm2 |-> 0, new_count |-> 0,
     buf1 |-> NoBuf, buf2 |-> NoBuf, r1 |-> NULL, r2 |-> NULL, ub |-> "ignore",
     ret |-> None]

\* u64 words are <<high 32 bits, low 32 bits>>.
U64(n) == <<0, n>>
\* `w as u32` keeps the low 32 bits.
AsU32(w) == w[2]
\* `w as usize` on the 64-bit targets keeps the whole word, the value
\* w[1] * 2^32 + w[2].  The integers of the model end at 2^31 - 1, so that
\* value is written w[1] * HighHalf + w[2]: the low halves the model uses are
\* all below HighHalf, so two words give the same number only if they are the
\* same word, and the code only compares ids and keys for equality.
HighHalf == 2^16
AsUsize(w) == w[1] * HighHalf + w[2]
\* Fits(w, n): `w as usize` is <= n.
Fits(w, n) == w[1] = 0 /\ w[2] <= n

\* A vCPU that has not trapped yet has no HyperCall.
NoCall == [st |-> "Idle"]

\* struct HyperCall, with the position and the locals of execute().
HyperCall ==
    [st |-> "Idle", vm |-> 0, raw |-> U64(0), code |-> "none",
     args |-> <<>>,
     err |-> "none", at |-> "none", ids |-> <<>>, i |-> 1,
     owner_vm_ids |-> <<>>, peer_vm_ids |-> <<>>, buffer_addrs |-> <<>>,
     found |-> FALSE, released |-> {}, steps |-> <<>>]

InitHvc ==
    /\ hc = [c \in Cpus |-> NoCall]
    /\ console = [v \in VmIds |-> {}]
    /\ calls = 0
    /\ held = EmptyMap
    /\ channels = EmptyMap

InitLock ==
    /\ lock = 0
    /\ pc = [c \in Cpus |-> "idle"]
    /\ loc = [c \in Cpus |-> NoLocals]
    /\ seqTable = EmptyMap
    /\ seqHeap = [a \in Addrs |-> 0]

Init == InitTable /\ InitLock /\ InitHvc

Spec == Init /\ [][Next]_vars

SpecTable == Init /\ [][NextTable]_vars

\* ------------------------------------------------------------ SpecLock
\* The three table functions statement by statement, called concurrently by
\* the vCPUs.  Each begins with CONSOLE_CONNECTIONS.lock() and holds the guard
\* until it returns.

\* A lock() that does not wait for the holder.
CanLock_NoWait(c) == TRUE

\* Mutex::lock returns once no vCPU holds the lock.
CanLock(c) == lock = 0

Goto(c, label) == pc' = [pc EXCEPT ![c] = label]

\* The guard is dropped on return; the history runs the whole call on the
\* sequential table with the allocator's answers the call met.
Return(c) ==
    LET l == loc[c]
        e == establish_connection(seqTable, seqHeap, l.vm1, l.vm2, buffer_size,
                                  l.r1, l.r2)
        r == remove_connection(seqTable, seqHeap, l.vm1, l.vm2, l.ub)
    IN  /\ lock' = 0
        /\ Goto(c, "idle")
        /\ loc' = [loc EXCEPT ![c] = NoLocals]
        /\ seqTable' = CASE l.op = "establish" -> e.connections
                         [] l.op = "remove" -> r.connections
                         [] OTHER -> seqTable
        /\ seqHeap' = CASE l.op = "establish" -> e.heap
                        [] l.op = "remove" -> r.heap
                        [] OTHER -> seqHeap

\* line 68 / 105 / 143: let connections = CONSOLE_CONNECTIONS.lock()
Acquire(c, op, vm1, vm2) ==
    /\ pc[c] = "idle"
    /\ CanLock(c)
    /\ op = "establish" =>
         WithinRef(establish_connection(CONSOLE_CONNECTIONS, heap, vm1, vm2,
                                        buffer_size, NULL, NULL).connections)
    /\ lock' = c
    /\ loc' = [loc EXCEPT ![c] = [Locals EXCEPT !.op = op, !.vm1 = vm1, !.vm2 = vm2]]
    /\ Goto(c, CASE op = "establish" -> "e_check"
                 [] op = "remove" -> "r_check"
                 [] OTHER -> "g_read")
    /\ UNCHANGED <<tableVars, seqTable, seqHeap>>

\* line 70: if connections.contains_key(&(vm1, vm2))
E_Check(c) ==
    /\ pc[c] = "e_check"
    /\ Goto(c, IF contains_key(CONSOLE_CONNECTIONS, <<loc[c].vm1, loc[c].vm2>>)
               THEN "e_inc1" ELSE "e_alloc1")
    /\ UNCHANGED <<tableVars, lock, loc, seqTable, seqHeap>>

\* lines 72-74: ref_count += 1 on (vm1, vm2)
E_Inc1(c) ==
    LET k == <<loc[c].vm1, loc[c].vm2>>
    IN  /\ pc[c] = "e_inc1"
        /\ CONSOLE_CONNECTIONS' =
             IF contains_key(CONSOLE_CONNECTIONS, k)
             THEN [CONSOLE_CONNECTIONS EXCEPT ![k].ref_count = @ + 1]
             ELSE CONSOLE_CONNECTIONS
        /\ Goto(c, "e_inc2")
        /\ UNCHANGED <<heap, badFree, track, lock, loc, seqTable, seqHeap>>

\* lines 75-77: ref_count += 1 on (vm2, vm1), if present
E_Inc2(c) ==
    LET k == <<loc[c].vm2, loc[c].vm1>>
    IN  /\ pc[c] = "e_inc2"
        /\ CONSOLE_CONNECTIONS' =
             IF contains_key(CONSOLE_CONNECTIONS, k)
             THEN [CONSOLE_CONNECTIONS EXCEPT ![k].ref_count = @ + 1]
             ELSE CONSOLE_CONNECTIONS
        /\ Goto(c, "e_reuse")
        /\ UNCHANGED <<heap, badFree, track, lock, loc, seqTable, seqHeap>>

\* lines 79-81: connections.get(&(vm1, vm2)).unwrap(); return the clones
E_Reuse(c) ==
    /\ pc[c] = "e_reuse"
    /\ IF contains_key(CONSOLE_CONNECTIONS, <<loc[c].vm1, loc[c].vm2>>)
       THEN Return(c)
       ELSE /\ Goto(c, "panicked")
            /\ UNCHANGED <<lock, loc, seqTable, seqHeap>>
    /\ UNCHANGED tableVars

\* line 84: let buf1 = ConsoleBuffer::alloc(buffer_size, vm1, vm2)?
E_Alloc1(c) ==
    /\ pc[c] = "e_alloc1"
    /\ \E r \in AllocOutcomes(heap) :
         LET a == alloc(heap, buffer_size, loc[c].vm1, loc[c].vm2, r)
         IN  /\ heap' = a.heap
             /\ IF a.ok
                THEN /\ loc' = [loc EXCEPT ![c].r1 = r, ![c].buf1 = a.buf]
                     /\ Goto(c, "e_alloc2")
                     /\ UNCHANGED <<lock, seqTable, seqHeap>>
                ELSE Return(c)
    /\ UNCHANGED <<CONSOLE_CONNECTIONS, badFree, track>>

\* line 85: let buf2 = ConsoleBuffer::alloc(buffer_size, vm2, vm1)?
E_Alloc2(c) ==
    /\ pc[c] = "e_alloc2"
    /\ \E r \in AllocOutcomes(heap) :
         LET a == alloc(heap, buffer_size, loc[c].vm2, loc[c].vm1, r)
         IN  /\ heap' = a.heap
             /\ IF a.ok
                THEN /\ loc' = [loc EXCEPT ![c].r2 = r, ![c].buf2 = a.buf]
                     /\ Goto(c, "e_ins1")
                     /\ UNCHANGED <<lock, seqTable, seqHeap>>
                ELSE Return(c)
    /\ UNCHANGED <<CONSOLE_CONNECTIONS, badFree, track>>

\* lines 88-93: connections.insert((vm1, vm2), entry)
E_Ins1(c) ==
    /\ pc[c] = "e_ins1"
    /\ CONSOLE_CONNECTIONS' =
         insert(CONSOLE_CONNECTIONS, <<loc[c].vm1, loc[c].vm2>>,
                [buf1 |-> loc[c].buf1, buf2 |-> loc[c].buf2, ref_count |-> 1])
    /\ Goto(c, "e_ins2")
    /\ UNCHANGED <<heap, badFree, track, lock, loc, seqTable, seqHeap>>

\* lines 94-100: connections.insert((vm2, vm1), mirror); Ok((buf1, buf2))
E_Ins2(c) ==
    /\ pc[c] = "e_ins2"
    /\ CONSOLE_CONNECTIONS' =
         insert(CONSOLE_CONNECTIONS, <<loc[c].vm2, loc[c].vm1>>,
                [buf1 |-> loc[c].buf2, buf2 |-> loc[c].buf1, ref_count |-> 1])
    /\ Return(c)
    /\ UNCHANGED <<heap, badFree, track>>

\* lines 108-110: if !connections.contains_key(&(vm1, vm2)) { return; }
R_Check(c) ==
    /\ pc[c] = "r_check"
    /\ IF contains_key(CONSOLE_CONNECTIONS, <<loc[c].vm1, loc[c].vm2>>)
       THEN /\ Goto(c, "r_dec1")
            /\ UNCHANGED <<lock, loc, seqTable, seqHeap>>
       ELSE Return(c)
    /\ UNCHANGED tableVars

\* lines 113-119: decrement (vm1, vm2), new_count = its ref_count
R_Dec1(c) ==
    LET k == <<loc[c].vm1, loc[c].vm2>>
        c1 == IF contains_key(CONSOLE_CONNECTIONS, k)
                   /\ CONSOLE_CONNECTIONS[k].ref_count > 0
              THEN [CONSOLE_CONNECTIONS EXCEPT ![k].ref_count = @ - 1]
              ELSE CONSOLE_CONNECTIONS
    IN  /\ pc[c] = "r_dec1"
        /\ CONSOLE_CONNECTIONS' = c1
        /\ loc' = [loc EXCEPT ![c].new_count =
                      IF contains_key(c1, k) THEN c1[k].ref_count ELSE 0]
        /\ Goto(c, "r_dec2")
        /\ UNCHANGED <<heap, badFree, track, lock, seqTable, seqHeap>>

\* lines 120-129: decrement (vm2, vm1) if present; if new_count == 0
R_Dec2(c) ==
    LET k == <<loc[c].vm2, loc[c].vm1>>
    IN  /\ pc[c] = "r_dec2"
        /\ CONSOLE_CONNECTIONS' =
             IF contains_key(CONSOLE_CONNECTIONS, k)
                  /\ CONSOLE_CONNECTIONS[k].ref_count > 0
             THEN [CONSOLE_CONNECTIONS EXCEPT ![k].ref_count = @ - 1]
             ELSE CONSOLE_CONNECTIONS
        /\ Goto(c, IF loc[c].new_count = 0 THEN "r_take" ELSE "r_last")
        /\ UNCHANGED <<heap, badFree, track, lock, loc, seqTable, seqHeap>>

\* lines 130-131: if let Some(entry) = connections.remove(&(vm1, vm2))
\*                  { entry.buf1.dealloc();
R_Take(c) ==
    LET k == <<loc[c].vm1, loc[c].vm2>>
    IN  /\ pc[c] = "r_take"
        /\ CONSOLE_CONNECTIONS' = remove(CONSOLE_CONNECTIONS, k)
        /\ IF contains_key(CONSOLE_CONNECTIONS, k)
           THEN LET entry == CONSOLE_CONNECTIONS[k]
                IN  \E ub \in UBOutcomes :
                      LET d1 == dealloc(heap, entry.buf1, ub)
                      IN  /\ (~d1.bad) => ub = "ignore"
                          /\ heap' = d1.heap
                          /\ badFree' = (badFree \/ d1.bad)
                          /\ loc' = [loc EXCEPT ![c].ub = ub,
                                                ![c].buf2 = entry.buf2]
                          /\ Goto(c, "r_take2")
           ELSE /\ UNCHANGED <<heap, badFree, loc>>
                /\ Goto(c, "r_mirror")
        /\ UNCHANGED <<track, lock, seqTable, seqHeap>>

\* line 132: entry.buf2.dealloc(); }
R_Take2(c) ==
    /\ pc[c] = "r_take2"
    /\ \E ub \in UBOutcomes :
         LET d2 == dealloc(heap, loc[c].buf2, ub)
         IN  /\ (~d2.bad) => ub = "ignore"
             /\ heap' = d2.heap
             /\ badFree' = (badFree \/ d2.bad)
             /\ loc' = [loc EXCEPT ![c].ub = IF d2.bad THEN ub ELSE @]
    /\ Goto(c, "r_mirror")
    /\ UNCHANGED <<CONSOLE_CONNECTIONS, track, lock, seqTable, seqHeap>>

\* line 135: connections.remove(&(vm2, vm1))
R_Mirror(c) ==
    /\ pc[c] = "r_mirror"
    /\ CONSOLE_CONNECTIONS' = remove(CONSOLE_CONNECTIONS, <<loc[c].vm2, loc[c].vm1>>)
    /\ Goto(c, "r_last")
    /\ UNCHANGED <<heap, badFree, track, lock, loc, seqTable, seqHeap>>

\* line 138: connections.remove(&(vm2, vm1)); return
R_Last(c) ==
    /\ pc[c] = "r_last"
    /\ CONSOLE_CONNECTIONS' = remove(CONSOLE_CONNECTIONS, <<loc[c].vm2, loc[c].vm1>>)
    /\ Return(c)
    /\ UNCHANGED <<heap, badFree, track>>

\* line 144: connections.get(&(vm1, vm2)).map(clone)
G_Read(c) ==
    /\ pc[c] = "g_read"
    /\ loc' = [loc EXCEPT ![c].ret =
                  get_buffers(CONSOLE_CONNECTIONS, loc[c].vm1, loc[c].vm2)]
    /\ Goto(c, "g_ret")
    /\ UNCHANGED <<tableVars, lock, seqTable, seqHeap>>

\* line 145: return, dropping the guard
G_Ret(c) ==
    /\ pc[c] = "g_ret"
    /\ Return(c)
    /\ UNCHANGED tableVars

NextLock ==
    \/ \E c \in Cpus, op \in {"establish", "remove", "lookup"},
          vm1 \in VmIds, vm2 \in VmIds : Acquire(c, op, vm1, vm2) /\ UNCHANGED hvcVars
    \/ \E c \in Cpus : E_Check(c) /\ UNCHANGED hvcVars
    \/ \E c \in Cpus : E_Inc1(c) /\ UNCHANGED hvcVars
    \/ \E c \in Cpus : E_Inc2(c) /\ UNCHANGED hvcVars
    \/ \E c \in Cpus : E_Reuse(c) /\ UNCHANGED hvcVars
    \/ \E c \in Cpus : E_Alloc1(c) /\ UNCHANGED hvcVars
    \/ \E c \in Cpus : E_Alloc2(c) /\ UNCHANGED hvcVars
    \/ \E c \in Cpus : E_Ins1(c) /\ UNCHANGED hvcVars
    \/ \E c \in Cpus : E_Ins2(c) /\ UNCHANGED hvcVars
    \/ \E c \in Cpus : R_Check(c) /\ UNCHANGED hvcVars
    \/ \E c \in Cpus : R_Dec1(c) /\ UNCHANGED hvcVars
    \/ \E c \in Cpus : R_Dec2(c) /\ UNCHANGED hvcVars
    \/ \E c \in Cpus : R_Take(c) /\ UNCHANGED hvcVars
    \/ \E c \in Cpus : R_Take2(c) /\ UNCHANGED hvcVars
    \/ \E c \in Cpus : R_Mirror(c) /\ UNCHANGED hvcVars
    \/ \E c \in Cpus : R_Last(c) /\ UNCHANGED hvcVars
    \/ \E c \in Cpus : G_Read(c) /\ UNCHANGED hvcVars
    \/ \E c \in Cpus : G_Ret(c) /\ UNCHANGED hvcVars

SpecLock == Init /\ [][NextLock]_vars

\* -------------------------------------------------------------- SpecBuf
\* ConsoleBuffer::alloc and ConsoleBuffer::dealloc are public, and the
\* buffers are plain values: establish_connection and get_buffers hand out
\* clones, and any caller can build one.  No code in src/ calls them but
\* the two table functions; these are the calls another caller could make.
\* They take no lock, so a vCPU outside the table functions makes them
\* between any two statements of a table call of another vCPU.
ConsoleBuffers ==
    [owner_vm_id : VmIds, peer_vm_id : VmIds, buffer_base : Addrs,
     buffer_size : {buffer_size}]

\* One direct call of ConsoleBuffer::alloc(size, owner, peer) by vCPU c; the
\* buffer stays with the caller.
AllocBuffer(c, size, owner_vm_id, peer_vm_id) ==
    \E r \in AllocOutcomes(heap) :
        /\ pc[c] = "idle"
        /\ calls < MaxDirect
        /\ calls' = calls + 1
        /\ heap' = alloc(heap, size, owner_vm_id, peer_vm_id, r).heap
        /\ UNCHANGED <<CONSOLE_CONNECTIONS, badFree, track, lockVars, hc, console,
                       held, channels>>

\* One direct call of buf.dealloc() by vCPU c.
DeallocBuffer(c, buf) ==
    \E ub \in (IF dealloc(heap, buf, "ignore").bad THEN UBOutcomes ELSE {"ignore"}) :
        LET d == dealloc(heap, buf, ub)
        IN  /\ pc[c] = "idle"
            /\ calls < MaxDirect
            /\ calls' = calls + 1
            /\ heap' = d.heap
            /\ badFree' = (badFree \/ d.bad)
            /\ UNCHANGED <<CONSOLE_CONNECTIONS, track, lockVars, hc, console, held,
                           channels>>

\* The table functions statement by statement, and the direct calls.
\* (seqTable and seqHeap follow the table calls only.)
NextBuf ==
    \/ NextLock
    \/ \E c \in Cpus, vm1 \in VmIds, vm2 \in VmIds :
          AllocBuffer(c, buffer_size, vm1, vm2)
    \/ \E c \in Cpus, buf \in ConsoleBuffers : DeallocBuffer(c, buf)

SpecBuf == Init /\ [][NextBuf]_vars

\* ------------------------------------------------------------- SpecHvc
\* Hypercalls of several vCPUs.  A table call is one step (it runs under the
\* lock from its first statement to its return); the steps of different
\* hypercalls interleave between table calls.

\* HyperCallCode (crate axhvc): the opcodes the dispatcher serves, and one of
\* the codes that decode but have no arm in execute().
HyperCallCodes ==
    (0 :> "HypervisorDisable") @@
    (3 :> "HIVCPublishChannel") @@ (4 :> "HIVCSubscribChannel") @@
    (5 :> "HIVCUnPublishChannel") @@ (6 :> "HIVCUnSubscribChannel") @@
    (7 :> "HConEstablishConnect") @@ (8 :> "HConUnEstablishConnect") @@
    (9 :> "HIVCSendIPI")

\* HyperCallCode::try_from(u32)
try_from(n) == IF n \in DOMAIN HyperCallCodes THEN HyperCallCodes[n] ELSE "Err"

\* The wire value of an opcode.
CodeOf(name) == CHOOSE n \in DOMAIN HyperCallCodes : HyperCallCodes[n] = name

\* Is the 64-bit value one of the enumeration's values?
IsOpcode(w) == w[1] = 0 /\ w[2] \in DOMAIN HyperCallCodes

IvcCodes == {"HIVCPublishChannel", "HIVCSubscribChannel",
             "HIVCUnPublishChannel", "HIVCUnSubscribChannel"}
ConsoleCodes == {"HConEstablishConnect", "HConUnEstablishConnect"}

\* The opcode values a trap is modelled with: every enumeration value, one
\* 32-bit value outside it, and both again with bit 32 set.
CodeInputs ==
    {U64(n) : n \in DOMAIN HyperCallCodes} \cup {U64(10)} \cup {<<1, 7>>, <<1, 10>>}

\* The argument vectors a console trap is modelled with: args[1] = count,
\* then the peer id words; a well-formed list of up to MaxPeers ids of VMs,
\* one id with a non-zero high half (2^32 + 2), or a count past the four id
\* words (5, or 2^32).
IdWords == {U64(v) : v \in VmIds}
IdLists == UNION {[1..n -> IdWords] : n \in 0..MaxPeers} \cup {<< <<1, 2>> >>}
Word(ids, k) == IF k <= Len(ids) THEN ids[k] ELSE U64(0)
ArgsOf(count, ids) ==
    <<U64(0), count, Word(ids, 1), Word(ids, 2), Word(ids, 3), Word(ids, 4)>>
ConsoleArgs ==
    {ArgsOf(U64(Len(ids)), ids) : ids \in IdLists}
        \cup {ArgsOf(U64(5), <<>>), ArgsOf(<<1, 0>>, <<>>)}
\* PublishChannel, UnPublishChannel: args[0] = key (the guest pointers of
\* PublishChannel, args[1] and args[2], are not followed).  One key has a
\* non-zero high half (2^32 + 16).
ChannelKeys == {U64(16), <<1, 16>>}
PublishArgs ==
    {<<key, U64(0), U64(0), U64(0), U64(0), U64(0)>> : key \in ChannelKeys}
\* SubscribChannel, UnSubscribChannel: args[0] = publisher_vm_id,
\* args[1] = key.
SubscribeArgs ==
    {<<pub, key, U64(0), U64(0), U64(0), U64(0)>> :
        pub \in IdWords, key \in ChannelKeys}
\* The argument words each arm reads.
ArgInputs(code) ==
    CASE try_from(AsU32(code)) \in ConsoleCodes -> ConsoleArgs
      [] try_from(AsU32(code)) \in {"HIVCPublishChannel", "HIVCUnPublishChannel"}
           -> PublishArgs
      [] try_from(AsU32(code)) \in {"HIVCSubscribChannel", "HIVCUnSubscribChannel"}
           -> SubscribeArgs
      [] OTHER -> {ArgsOf(U64(0), <<>>)}

\* History of who holds which pair: vm's successful establishes of (vm, peer)
\* less its removes of it, and the bases its latest establish returned.
Bases(bufs) == {bufs[i].buffer_base : i \in DOMAIN bufs}
HeldOf(vm, peer) ==
    IF <<vm, peer>> \in DOMAIN held THEN held[<<vm, peer>>]
    ELSE [n |-> 0, bufs |-> {}]
Hold(vm, peer, bases) ==
    insert(held, <<vm, peer>>, [n |-> HeldOf(vm, peer).n + 1, bufs |-> bases])
Unhold(vm, peer) ==
    insert(held, <<vm, peer>>, [HeldOf(vm, peer) EXCEPT !.n = @ - 1])

\* The VM a vCPU belongs to (HyperCall.vm).
VmOf(c) == ((c - 1) % NumVms) + 1

Halted == \E c \in Cpus : hc[c].st = "Panicked"

\* HyperCall::new (lines 19-31): decode the opcode, nothing else.
new(vm, code, args) ==
    LET decoded == try_from(AsU32(code))
    IN  IF decoded = "Err"
        THEN [st |-> "Rejected", code |-> "none", err |-> "InvalidInput"]
        ELSE [HyperCall EXCEPT !.st = "Decoded", !.vm = vm, !.raw = code,
                            !.code = decoded, !.args = args]

\* A trap on vCPU c, one of at most limit: the previous call of c, if any,
\* has ended.
New(c, code, args, limit) ==
    /\ ~Halted
    /\ hc[c].st \in {"Idle", "Rejected", "Completed", "Failed"}
    /\ calls < limit
    /\ calls' = calls + 1
    /\ hc' = [hc EXCEPT ![c] = new(VmOf(c), code, args)]
    /\ UNCHANGED <<tableVars, lockVars, console, held, channels>>

Set(c, h) == hc' = [hc EXCEPT ![c] = h]
\* execute() has returned: the HyperCall and the locals are gone, what is
\* left is the opcode that was served and the result.
Ended(h) == [st |-> h.st, code |-> h.code, err |-> h.err]
Completed(h) == [Ended(h) EXCEPT !.st = "Completed"]
Failed(h, kind) == [Ended(h) EXCEPT !.st = "Failed", !.err = kind]
Panicked(h) == [Ended(h) EXCEPT !.st = "Panicked"]

\* lines 151-157 / 197-203: num_ids = args[1] as usize;
\* ids = args[2..2+num_ids], each `id as usize`: the slice panics unless
\* 2 + num_ids <= 6.
H_Slice(c) ==
    LET h == hc[c]
        num_ids == h.args[2]
    IN  /\ ~Halted
        /\ h.st = "Decoded" /\ h.code \in ConsoleCodes
        /\ IF Fits(num_ids, 4)
           THEN Set(c, [h EXCEPT !.st = "Executing",
                          !.ids = [k \in 1..num_ids[2] |-> AsUsize(h.args[2 + k])],
                          !.at = IF num_ids[2] = 0
                                 THEN (IF h.code = "HConEstablishConnect"
                                       THEN "e_device" ELSE "u_device")
                                 ELSE (IF h.code = "HConEstablishConnect"
                                       THEN "e_loop" ELSE "u_lookup")])
           ELSE Set(c, Panicked(h))
        /\ UNCHANGED <<tableVars, lockVars, console, calls, held, channels>>

AfterPeer(h, loop, done) ==
    IF h.i = Len(h.ids) THEN [h EXCEPT !.at = done]
    ELSE [h EXCEPT !.i = @ + 1, !.at = loop]

\* lines 164-180: establish_connection(self.vm.id(), dst_vm_id, 4096),
\* Err -> NoMemory; else push the two buffers' owner, peer and address.
H_Establish(c) ==
    LET h == hc[c]
        dst_vm_id == h.ids[h.i]
    IN  /\ ~Halted
        /\ h.st = "Executing" /\ h.at = "e_loop"
        /\ \E r1 \in Answers1(CONSOLE_CONNECTIONS, heap, h.vm, dst_vm_id) :
           \E r2 \in Answers2(CONSOLE_CONNECTIONS, heap, h.vm, dst_vm_id,
                              buffer_size, r1) :
             LET res == establish_connection(CONSOLE_CONNECTIONS, heap, h.vm,
                                             dst_vm_id, buffer_size, r1, r2)
             IN  /\ WithinRef(res.connections)
                 /\ CONSOLE_CONNECTIONS' = res.connections
                 /\ heap' = res.heap
                 /\ held' = IF res.ok THEN Hold(h.vm, dst_vm_id, Bases(res.ret))
                            ELSE held
                 /\ IF res.ok
                    THEN Set(c, AfterPeer(
                           [h EXCEPT
                              !.owner_vm_ids = @ \o <<res.ret[1].owner_vm_id,
                                                      res.ret[2].owner_vm_id>>,
                              !.peer_vm_ids = @ \o <<res.ret[1].peer_vm_id,
                                                     res.ret[2].peer_vm_id>>,
                              !.buffer_addrs = @ \o <<res.ret[1].buffer_base,
                                                      res.ret[2].buffer_base>>],
                           "e_loop", "e_device"))
                    ELSE Set(c, Failed(h, "NoMemory"))
        /\ UNCHANGED <<badFree, track, lockVars, console, calls, channels>>

\* The VM's console device (VM object, outside this subsystem): it keeps the
\* (owner, peer, address) records of the last update for an (owner, peer);
\* an update can fail, and then changes nothing.
Reported(h) ==
    {<<h.owner_vm_ids[k], h.peer_vm_ids[k]>> : k \in DOMAIN h.owner_vm_ids}
establish_console_connection(dev, h, okk) ==
    IF ~okk THEN dev
    ELSE {r \in dev : <<r[1], r[2]>> \notin Reported(h)}
           \cup {<<h.owner_vm_ids[k], h.peer_vm_ids[k], h.buffer_addrs[k]>> :
                   k \in DOMAIN h.owner_vm_ids}
remove_console_connection(dev, h, okk) ==
    IF ~okk THEN dev
    ELSE {r \in dev : <<r[1], r[2]>> \notin Reported(h)}

\* The device's result handed on to the guest.
after_device_reported(h, okk) ==
    IF okk THEN Completed(h) ELSE Failed(h, "BadState")

\* lines 183/221 and 189/226: `let _ =` drops the device's result; Ok(0)
after_device(h, okk) == Completed(h)

\* lines 183-189: one batched device update, its result dropped; Ok(0)
H_EstablishDevice(c) ==
    LET h == hc[c]
    IN  /\ ~Halted
        /\ h.st = "Executing" /\ h.at = "e_device"
        /\ \E okk \in BOOLEAN :
             /\ console' = [console EXCEPT
                              ![h.vm] = establish_console_connection(@, h, okk)]
             /\ Set(c, after_device(h, okk))
        /\ UNCHANGED <<tableVars, lockVars, calls, held, channels>>

\* lines 210-216: get_buffers(self.vm.id(), dst_vm_id); if Some, push the
\* two buffers' owner and peer.
H_Lookup(c) ==
    LET h == hc[c]
        got == get_buffers(CONSOLE_CONNECTIONS, h.vm, h.ids[h.i])
    IN  /\ ~Halted
        /\ h.st = "Executing" /\ h.at = "u_lookup"
        /\ Set(c, IF got = None THEN [h EXCEPT !.at = "u_remove", !.found = FALSE]
                  ELSE [h EXCEPT
                          !.at = "u_remove", !.found = TRUE,
                          !.owner_vm_ids = @ \o <<got[1].owner_vm_id,
                                                  got[2].owner_vm_id>>,
                          !.peer_vm_ids = @ \o <<got[1].peer_vm_id,
                                                 got[2].peer_vm_id>>])
        /\ UNCHANGED <<tableVars, lockVars, console, calls, held, channels>>

\* line 217: remove_connection(self.vm.id(), dst_vm_id)
H_Remove(c) ==
    LET h == hc[c]
        dst_vm_id == h.ids[h.i]
    IN  /\ ~Halted
        /\ h.st = "Executing" /\ h.at = "u_remove"
        /\ \E ub \in Reactions(CONSOLE_CONNECTIONS, heap, h.vm, dst_vm_id) :
             LET res == remove_connection(CONSOLE_CONNECTIONS, heap, h.vm,
                                          dst_vm_id, ub)
             IN  /\ CONSOLE_CONNECTIONS' = res.connections
                 /\ heap' = res.heap
                 /\ badFree' = (badFree \/ res.bad)
                 /\ held' = Unhold(h.vm, dst_vm_id)
                 /\ Set(c, AfterPeer([h EXCEPT !.released = @ \cup res.freed,
                                               !.found = FALSE],
                                     "u_lookup", "u_device"))
        /\ UNCHANGED <<track, lockVars, console, calls, channels>>

\* lines 221-226: one batched device removal, its result dropped; Ok(0)
H_RemoveDevice(c) ==
    LET h == hc[c]
    IN  /\ ~Halted
        /\ h.st = "Executing" /\ h.at = "u_device"
        /\ \E okk \in BOOLEAN :
             /\ console' = [console EXCEPT
                              ![h.vm] = remove_console_connection(@, h, okk)]
             /\ Set(c, after_device(h, okk))
        /\ UNCHANGED <<tableVars, lockVars, calls, held, channels>>

\* lines 241-250: a missing target VM (~target) or a failed injection
\* (~injected) is only logged; Ok(0)
send_ipi(h, target, injected) == Completed(h)

\* lines 228-251: SendIPI
H_SendIPI(c) ==
    /\ ~Halted
    /\ hc[c].st = "Decoded" /\ hc[c].code = "HIVCSendIPI"
    /\ \E target \in BOOLEAN, injected \in BOOLEAN :
          Set(c, send_ipi(hc[c], target, injected))
    /\ UNCHANGED <<tableVars, lockVars, console, calls, held, channels>>

\* lines 252-255: a code with no arm
H_Unsupported(c) ==
    /\ ~Halted
    /\ hc[c].st = "Decoded"
    /\ hc[c].code \notin IvcCodes \cup ConsoleCodes \cup {"HIVCSendIPI"}
    /\ Set(c, Failed(hc[c], "Unsupported"))
    /\ UNCHANGED <<tableVars, lockVars, console, calls, held, channels>>

\* lines 48-67: the fallible steps of PublishChannel in program order, each
\* followed by `?`: read the requested size from the guest, reserve the
\* guest-physical window, create the channel, map it read/write at the window
\* base, write the base and the actual size back to the guest, register.
PublishSteps_RegisterFirst ==
    <<"read_from_guest_of", "alloc_ivc_channel", "IVCChannel::alloc",
      "insert_channel", "map_region", "write_base", "write_size">>

PublishSteps ==
    <<"read_from_guest_of", "alloc_ivc_channel", "IVCChannel::alloc",
      "map_region", "write_base", "write_size", "insert_channel">>

\* The IVC registry (module ivc, not in src/), by its contract: the
\* channels registered under (publisher vm, key), each with the VMs
\* subscribed to it.
insert_channel(reg, vm, key) ==
    IF contains_key(reg, <<vm, key>>) THEN reg ELSE insert(reg, <<vm, key>>, {})
\* unpublish_channel answers Ok(Some(window)) and takes the channel out, or
\* Ok(None) for no channel, or Err.
UnpublishAnswers(reg, vm, key) ==
    IF contains_key(reg, <<vm, key>>) THEN {"Some", "Err"} ELSE {"None", "Err"}
unpublish_channel(reg, vm, key, ans) ==
    IF ans = "Some" THEN remove(reg, <<vm, key>>) ELSE reg
\* get_channel_size and subscribe_to_channel_of_publisher succeed only on a
\* registered channel, unsubscribe_from_channel_of_publisher only for a
\* subscriber of it.
Registered(reg, vm, key) == contains_key(reg, <<vm, key>>)
Subscribed(reg, vm, key, sub) ==
    contains_key(reg, <<vm, key>>) /\ sub \in reg[<<vm, key>>]
subscribe_to_channel_of_publisher(reg, vm, key, sub) ==
    [reg EXCEPT ![<<vm, key>>] = @ \cup {sub}]
unsubscribe_from_channel_of_publisher(reg, vm, key, sub) ==
    [reg EXCEPT ![<<vm, key>>] = @ \ {sub}]

\* lines 36-45: PublishChannel begins; key = args[0] as usize
P_Begin(c) ==
    /\ ~Halted
    /\ hc[c].st = "Decoded" /\ hc[c].code = "HIVCPublishChannel"
    /\ Set(c, [hc[c] EXCEPT !.st = "Executing", !.at = "publish"])
    /\ UNCHANGED <<tableVars, lockVars, console, calls, held, channels>>

\* lines 48-69: the next step of PublishChannel succeeds (okk) or fails; a
\* failure is returned by `?`, the last success is followed by Ok(0).
P_Step(c) ==
    LET h == hc[c]
        step == PublishSteps[Len(h.steps) + 1]
        key == AsUsize(h.args[1])
    IN  /\ ~Halted
        /\ h.st = "Executing" /\ h.at = "publish"
        /\ \E okk \in BOOLEAN :
             /\ channels' = IF okk /\ step = "insert_channel"
                            THEN insert_channel(channels, h.vm, key) ELSE channels
             /\ Set(c, IF ~okk THEN Failed(h, "Propagated")
                       ELSE IF Len(h.steps) + 1 = Len(PublishSteps)
                       THEN Completed(h)
                       ELSE [h EXCEPT !.steps = Append(@, step)])
        /\ UNCHANGED <<tableVars, lockVars, console, calls, held>>

\* lines 80-81, 98-118, 139-141: the fallible calls of the other three IVC
\* arms in program order.
UnPublishSteps == <<"unpublish_channel", "unmap_region">>
SubscribeSteps ==
    <<"get_channel_size", "alloc_ivc_channel",
      "subscribe_to_channel_of_publisher", "map_region", "write_base",
      "write_size">>
UnSubscribeSteps == <<"unsubscribe_from_channel_of_publisher", "unmap_region">>

\* lines 72-79, 86-96, 130-137: the arm begins (arguments read, logged)
I_Begin(c) ==
    /\ ~Halted
    /\ hc[c].st = "Decoded" /\ hc[c].code \in IvcCodes \ {"HIVCPublishChannel"}
    /\ Set(c, [hc[c] EXCEPT !.st = "Executing", !.at = "ivc"])
    /\ UNCHANGED <<tableVars, lockVars, console, calls, held, channels>>

\* lines 80-83: ivc::unpublish_channel(self.vm.id(), key)?.unwrap(), then
\* unmap_region(base_gpa, size)?; Ok(0).  The unwrap panics on Ok(None).
H_UnPublish(c) ==
    LET h == hc[c]
        step == UnPublishSteps[Len(h.steps) + 1]
        key == AsUsize(h.args[1])
    IN  /\ ~Halted
        /\ h.st = "Executing" /\ h.code = "HIVCUnPublishChannel"
        /\ IF step = "unpublish_channel"
           THEN \E ans \in UnpublishAnswers(channels, h.vm, key) :
                  /\ channels' = unpublish_channel(channels, h.vm, key, ans)
                  /\ Set(c, CASE ans = "Some" -> [h EXCEPT !.steps = Append(@, step)]
                              [] ans = "None" -> Panicked(h)
                              [] OTHER -> Failed(h, "Propagated"))
           ELSE \E okk \in BOOLEAN :
                  /\ Set(c, IF okk THEN Completed(h) ELSE Failed(h, "Propagated"))
                  /\ UNCHANGED channels
        /\ UNCHANGED <<tableVars, lockVars, console, calls, held>>

\* lines 98-127: get_channel_size(publisher_vm_id, key)?, alloc_ivc_channel?,
\* subscribe_to_channel_of_publisher(publisher_vm_id, key, self.vm.id(), gpa)?,
\* map_region?, the two write_to_guest_of?; Ok(0)
H_Subscribe(c) ==
    LET h == hc[c]
        step == SubscribeSteps[Len(h.steps) + 1]
        publisher_vm_id == AsUsize(h.args[1])
        key == AsUsize(h.args[2])
        answers == IF step \in {"get_channel_size", "subscribe_to_channel_of_publisher"}
                        /\ ~Registered(channels, publisher_vm_id, key)
                   THEN {FALSE} ELSE BOOLEAN
    IN  /\ ~Halted
        /\ h.st = "Executing" /\ h.code = "HIVCSubscribChannel"
        /\ \E okk \in answers :
             /\ channels' = IF okk /\ step = "subscribe_to_channel_of_publisher"
                            THEN subscribe_to_channel_of_publisher(
                                     channels, publisher_vm_id, key, h.vm)
                            ELSE channels
             /\ Set(c, IF ~okk THEN Failed(h, "Propagated")
                       ELSE IF Len(h.steps) + 1 = Len(SubscribeSteps)
                       THEN Completed(h)
                       ELSE [h EXCEPT !.steps = Append(@, step)])
        /\ UNCHANGED <<tableVars, lockVars, console, calls, held>>

\* lines 138-143: unsubscribe_from_channel_of_publisher(publisher_vm_id, key,
\* self.vm.id())?, then unmap_region(base_gpa, size)?; Ok(0)
H_UnSubscribe(c) ==
    LET h == hc[c]
        step == UnSubscribeSteps[Len(h.steps) + 1]
        publisher_vm_id == AsUsize(h.args[1])
        key == AsUsize(h.args[2])
        answers == IF step = "unsubscribe_from_channel_of_publisher"
                        /\ ~Subscribed(channels, publisher_vm_id, key, h.vm)
                   THEN {FALSE} ELSE BOOLEAN
    IN  /\ ~Halted
        /\ h.st = "Executing" /\ h.code = "HIVCUnSubscribChannel"
        /\ \E okk \in answers :
             /\ channels' = IF okk /\ step = "unsubscribe_from_channel_of_publisher"
                            THEN unsubscribe_from_channel_of_publisher(
                                     channels, publisher_vm_id, key, h.vm)
                            ELSE channels
             /\ Set(c, IF ~okk THEN Failed(h, "Propagated")
                       ELSE IF Len(h.steps) + 1 = Len(UnSubscribeSteps)
                       THEN Completed(h)
                       ELSE [h EXCEPT !.steps = Append(@, step)])
        /\ UNCHANGED <<tableVars, lockVars, console, calls, held>>

\* The dispatcher with the console, SendIPI and unserved opcodes.
HvcCodeInputs == {w \in CodeInputs : try_from(AsU32(w)) \notin IvcCodes}

NextHvc ==
    \/ \E c \in Cpus, code \in HvcCodeInputs :
          \E args \in ArgInputs(code) : New(c, code, args, MaxCalls)
    \/ \E c \in Cpus : H_Slice(c)
    \/ \E c \in Cpus : H_Establish(c)
    \/ \E c \in Cpus : H_EstablishDevice(c)
    \/ \E c \in Cpus : H_Lookup(c)
    \/ \E c \in Cpus : H_Remove(c)
    \/ \E c \in Cpus : H_RemoveDevice(c)
    \/ \E c \in Cpus : H_SendIPI(c)
    \/ \E c \in Cpus : H_Unsupported(c)

SpecHvc == Init /\ [][NextHvc]_vars

\* The dispatcher with the four IVC opcodes.
IvcCodeInputs == {w \in CodeInputs : try_from(AsU32(w)) \in IvcCodes}

NextIvc ==
    \/ \E c \in Cpus, code \in IvcCodeInputs :
          \E args \in ArgInputs(code) : New(c, code, args, MaxIvcCalls)
    \/ \E c \in Cpus : P_Begin(c)
    \/ \E c \in Cpus : P_Step(c)
    \/ \E c \in Cpus : I_Begin(c)
    \/ \E c \in Cpus : H_UnPublish(c)
    \/ \E c \in Cpus : H_Subscribe(c)
    \/ \E c \in Cpus : H_UnSubscribe(c)

SpecIvc == Init /\ [][NextIvc]_vars

\* ---------------------------------------------------------------- claims
Present(a, b) == contains_key(CONSOLE_CONNECTIONS, <<a, b>>)
Allocated(buf) == heap[buf.buffer_base] # 0
BufSet(bufs) == {bufs[i] : i \in DOMAIN bufs}

\* C1: after any sequence of establish/remove calls the entries for (a,b)
\* and (b,a) are both present or both absent, and when present lookup(b,a)
\* is lookup(a,b) with the two buffers swapped.
C1_Symmetry ==
    \A a \in VmIds, b \in VmIds :
        /\ Present(a, b) <=> Present(b, a)
        /\ a # b /\ Present(a, b) /\ Present(b, a)
             => LET x == get_buffers(CONSOLE_CONNECTIONS, a, b)
                    y == get_buffers(CONSOLE_CONNECTIONS, b, a)
                IN  x[1] = y[2] /\ x[2] = y[1]

\* C2: once the pair {a,b}, established from nothing, has seen n >= 1
\* establish calls and then n remove calls, each in either orientation,
\* neither (a,b) nor (b,a) is in the table and both buffers of the pair have
\* been released.
C2_TeardownEitherEndpoint ==
    (track.on /\ track.a # track.b /\ track.fresh /\ track.ordered
              /\ track.k = track.n)
        => /\ ~Present(track.a, track.b)
           /\ ~Present(track.b, track.a)
           /\ \A i \in {1, 2} : ~Allocated(track.first[i])

\* C3: from no entry for (a,b), after n establish(a,b) calls and then k
\* remove(a,b) calls: while k < n lookup(a,b) returns the two buffers of the
\* first establish, at non-zero addresses and still allocated; once k = n
\* lookup(a,b) is absent and both buffers have been released.
C3_RefcountCorrect ==
    (track.on /\ track.oriented /\ track.ordered)
        => /\ track.k < track.n
                => /\ Present(track.a, track.b)
                   /\ BufSet(get_buffers(CONSOLE_CONNECTIONS, track.a, track.b))
                        = BufSet(track.first)
                   /\ \A i \in {1, 2} : /\ track.first[i].buffer_base # NULL
                                        /\ Allocated(track.first[i])
           /\ track.k = track.n
                => /\ get_buffers(CONSOLE_CONNECTIONS, track.a, track.b) = None
                   /\ \A i \in {1, 2} : ~Allocated(track.first[i])

\* C4: while the pair {a,b} has had more successful establish calls than
\* remove calls, a further establish(a,b) or establish(b,a) allocates nothing
\* and returns the two buffers of the pair's original allocation, the
\* caller's own buffer first.
C4_NoReallocOnReuse ==
    (track.on /\ track.a # track.b /\ track.op = "establish" /\ track.ok
              /\ track.n >= 2)
        => /\ track.allocs = {}
           /\ BufSet(track.ret) = BufSet(track.first)
           /\ track.ret[1].owner_vm_id = track.vm1

\* C5: no buffer has been released more than once (no release ever reached
\* memory the allocator did not hold for it), and every buffer of an entry
\* that is present is still allocated.
C5_NoDoubleReleaseNoDangling ==
    /\ ~badFree
    /\ \A key \in DOMAIN CONSOLE_CONNECTIONS :
          /\ Allocated(CONSOLE_CONNECTIONS[key].buf1)
          /\ Allocated(CONSOLE_CONNECTIONS[key].buf2)

\* C5 witness: a remove has just released the two buffers of a pair while
\* another pair still has its entries.
C5_Witness ==
    /\ track.op = "remove" /\ Cardinality(track.freed) = 2
    /\ CONSOLE_CONNECTIONS # EmptyMap

\* C8: in every reachable state, a remove(a,b) for which no entry for (a,b)
\* exists leaves the table and the set of allocated buffers as they are,
\* whatever the allocator would do, and releases nothing.
C8_IdempotentRemove ==
    \A a \in VmIds, b \in VmIds :
        ~Present(a, b)
            => \A ub \in UBOutcomes :
                 LET res == remove_connection(CONSOLE_CONNECTIONS, heap, a, b, ub)
                 IN  /\ res.connections = CONSOLE_CONNECTIONS
                     /\ res.heap = heap
                     /\ ~res.bad
                     /\ res.freed = {}

\* C8 witness: the latest call was a remove that found no entry for its key,
\* made while the table held entries (here the mirror of its key).
C8_Witness ==
    /\ track.op = "remove" /\ ~track.hit
    /\ \E key \in DOMAIN CONSOLE_CONNECTIONS : key[1] # key[2]

\* C6: the table calls are linearizable.  While a vCPU is inside a call no
\* other vCPU is; a lookup returns what the table of the calls returned so
\* far holds; and whenever no call is in progress the table and the heap are
\* those of running the returned calls one after the other, in the order of
\* their returns.
C6_Linearizable ==
    /\ \A c \in Cpus, d \in Cpus : (pc[c] # "idle" /\ pc[d] # "idle") => c = d
    /\ \A c \in Cpus : pc[c] # "panicked"
    /\ \A c \in Cpus :
          pc[c] = "g_ret"
              => loc[c].ret = get_buffers(seqTable, loc[c].vm1, loc[c].vm2)
    /\ (\A c \in Cpus : pc[c] = "idle")
          => /\ CONSOLE_CONNECTIONS = seqTable
             /\ heap = seqHeap

\* C6 witness: between two calls, after a remove that left only one of the
\* two mirror entries, so calls that change (a,b) and (b,a) in separate
\* statements have run and returned.
C6_Witness ==
    /\ \A c \in Cpus : pc[c] = "idle"
    /\ \E a \in VmIds, b \in VmIds :
          /\ a # b
          /\ contains_key(seqTable, <<a, b>>)
          /\ ~contains_key(seqTable, <<b, a>>)
          /\ seqTable[<<a, b>>].ref_count >= 2

\* C7: while an UnEstablishConsoleConnection call has not yet issued its
\* device removal, no record of the calling VM's console device refers to a
\* buffer that the call's remove(self, peer) has already released.
C7_UnmapBeforeRelease ==
    \A c \in Cpus :
        (hc[c].st = "Executing" /\ hc[c].code = "HConUnEstablishConnect")
            => \A r \in console[hc[c].vm] : r[3] \notin hc[c].released

\* C9: no HyperCall is produced for a 64-bit opcode value that is not a
\* value of the enumeration (every call decoded or executing has an opcode
\* value of the enumeration), and a rejected trap carries InvalidInput.
C9_OpcodeValidation ==
    \A c \in Cpus :
        /\ hc[c].st \in {"Decoded", "Executing"} => IsOpcode(hc[c].raw)
        /\ hc[c].st = "Rejected" => hc[c].err = "InvalidInput"

\* C10: the step of a console hypercall that takes the id words of a count
\* word greater than 4 ends the call Failed with InvalidInput, and changes
\* neither the Connection Table nor the console devices.
C10_PeerCountValidation ==
    [][\A c \in Cpus :
          (H_Slice(c) /\ ~Fits(hc[c].args[2], 4))
              => /\ hc'[c].st = "Failed" /\ hc'[c].err = "InvalidInput"
                 /\ UNCHANGED <<CONSOLE_CONNECTIONS, heap, console>>]_vars

\* C14: whenever the entries for (a,b) and (b,a) both exist, a # b, they
\* carry the same ref_count.
C14_MirrorCountsEqual ==
    \A a \in VmIds, b \in VmIds :
        (a # b /\ Present(a, b) /\ Present(b, a))
            => CONSOLE_CONNECTIONS[<<a, b>>].ref_count
                 = CONSOLE_CONNECTIONS[<<b, a>>].ref_count

\* C14 witness: both entries of a pair exist after the pair was reused, so
\* both counts have been incremented.
C14_Witness ==
    \E a \in VmIds, b \in VmIds :
        /\ a # b /\ Present(a, b) /\ Present(b, a)
        /\ CONSOLE_CONNECTIONS[<<a, b>>].ref_count >= 2
        /\ CONSOLE_CONNECTIONS[<<b, a>>].ref_count >= 2
        /\ track.op = "establish" /\ track.hit

\* C15: every entry present in the table has ref_count >= 1 (no count goes
\* below zero, and no entry stays once its count is back to zero).
C15_NoZeroCountEntry ==
    \A key \in DOMAIN CONSOLE_CONNECTIONS :
        CONSOLE_CONNECTIONS[key].ref_count >= 1

\* C15 witness: the latest call was a remove that took the count of its
\* entry to zero, released the buffers and erased the entry, while another
\* pair still has entries.
C15_Witness ==
    /\ track.op = "remove" /\ track.hit /\ track.freed # {}
    /\ \A x \in track.freed :
          /\ heap[x] = 0
          /\ \A key \in DOMAIN CONSOLE_CONNECTIONS :
                x \notin {CONSOLE_CONNECTIONS[key].buf1.buffer_base,
                          CONSOLE_CONNECTIONS[key].buf2.buffer_base}
    /\ CONSOLE_CONNECTIONS # EmptyMap

\* C16: an establish(a,b) on a pair without entry that fails (the pair has no
\* entry afterwards either) leaves the table as it was and leaves no buffer
\* allocated that was not allocated before the call.
C16_EstablishAllOrNothing ==
    [][\A a \in VmIds, b \in VmIds :
          (~Present(a, b) /\ Establish(a, b, buffer_size) /\ ~Present(a, b)')
              => UNCHANGED <<CONSOLE_CONNECTIONS, heap>>]_vars

\* Every allocated buffer is referenced by an entry of the table.
NoLeak ==
    \A x \in Addrs :
        heap[x] # 0
            => \E key \in DOMAIN CONSOLE_CONNECTIONS :
                  x \in {CONSOLE_CONNECTIONS[key].buf1.buffer_base,
                         CONSOLE_CONNECTIONS[key].buf2.buffer_base}

\* C18: no successful call (an establish that returns buffers, or a remove)
\* made while every allocated buffer is referenced by the table leaves an
\* allocated buffer that no entry references.
C18_NoLeakedBuffer ==
    [][\A a \in VmIds, b \in VmIds :
          (NoLeak /\ \/ Establish(a, b, buffer_size) /\ Present(a, b)'
                     \/ Remove(a, b))
              => NoLeak']_vars

\* The lists a call of VM s with peer list ids has accumulated after its
\* first m peers: owner s, peer p for the buffer s -> p, then owner p, peer s
\* for the buffer p -> s.
OwnersFor(s, ids, m) == [k \in 1..(2 * m) |-> IF k % 2 = 1 THEN s ELSE ids[k \div 2]]
PeersFor(s, ids, m) == [k \in 1..(2 * m) |-> IF k % 2 = 1 THEN ids[(k + 1) \div 2] ELSE s]

\* C11: an EstablishConsoleConnection call of VM s with peers p1..pn, all
\* established, has accumulated exactly 2n triples when it issues its single
\* device update, in the order (s,p1), (p1,s), ..., (s,pn), (pn,s), each with
\* a buffer address; while it is still in the loop it has accumulated those
\* of the peers processed so far and has issued no update.
C11_ReportingOrder ==
    \A c \in Cpus :
        (hc[c].st = "Executing" /\ hc[c].code = "HConEstablishConnect")
            => LET h == hc[c]
                   m == IF h.at = "e_device" THEN Len(h.ids) ELSE h.i - 1
               IN  /\ h.at \in {"e_loop", "e_device"}
                   /\ h.owner_vm_ids = OwnersFor(h.vm, h.ids, m)
                   /\ h.peer_vm_ids = PeersFor(h.vm, h.ids, m)
                   /\ Len(h.buffer_addrs) = 2 * m
                   /\ \A k \in 1..m :
                         /\ h.buffer_addrs[2 * k - 1] # NULL
                         /\ h.buffer_addrs[2 * k] # NULL
                         /\ h.buffer_addrs[2 * k - 1] # h.buffer_addrs[2 * k]

\* C11 witness: a call with two peers is about to issue its device update,
\* and the pair of its first peer was reused (the peer established it).
C11_Witness ==
    \E c \in Cpus :
        /\ hc[c].st = "Executing" /\ hc[c].code = "HConEstablishConnect"
        /\ hc[c].at = "e_device" /\ Len(hc[c].ids) = 2
        /\ hc[c].ids[1] # hc[c].vm
        /\ HeldOf(hc[c].ids[1], hc[c].vm).n = 1
        /\ Present(hc[c].vm, hc[c].ids[1])
        /\ CONSOLE_CONNECTIONS[<<hc[c].vm, hc[c].ids[1]>>].ref_count = 2

\* C12: the step that meets a collaborator's failure (device update, device
\* removal, interrupt injection or target lookup) ends the call with Ok(0)
\* and changes neither the table nor the allocated buffers.
C12_FireAndForget ==
    [][\A c \in Cpus :
          (H_EstablishDevice(c) \/ H_RemoveDevice(c) \/ H_SendIPI(c))
              => /\ hc'[c].st = "Completed"
                 /\ UNCHANGED <<CONSOLE_CONNECTIONS, heap>>]_vars

\* C12 witness: the EstablishConsoleConnection call of a VM has returned
\* Ok(0) although the device update failed (the device holds no triple), and
\* the connection the VM established is in the table.
C12_Witness ==
    \E c \in Cpus, peer \in VmIds :
        /\ hc[c].st = "Completed" /\ hc[c].code = "HConEstablishConnect"
        /\ console[VmOf(c)] = {}
        /\ Present(VmOf(c), peer)
        /\ HeldOf(VmOf(c), peer).n = 1

\* C13: a hypercall whose execution has begun ends Completed or Failed and in
\* no other way: no call is ever aborted.
C13_RunToCompletion ==
    \A c \in Cpus :
        hc[c].st \in {"Idle", "Rejected", "Decoded", "Executing",
                      "Completed", "Failed"}

\* C17: while a VM, with no console call in progress, has made more
\* successful establishes of a pair than removes of it, the buffers its
\* latest establish returned are allocated.
C17_PeerCannotRelease ==
    \A a \in VmIds, b \in VmIds :
        (/\ HeldOf(a, b).n > 0
         /\ \A c \in Cpus : VmOf(c) = a => hc[c].st \notin {"Decoded", "Executing"})
            => \A x \in HeldOf(a, b).bufs : heap[x] # 0

\* C19: each remove(self, peer) of an UnEstablishConsoleConnection call finds
\* an entry exactly if the call's lookup for that peer found one.
C19_LookupRemoveAgree ==
    [][\A c \in Cpus :
          H_Remove(c)
              => (hc[c].found <=> Present(hc[c].vm, hc[c].ids[hc[c].i]))]_vars

\* p is the beginning of q.
IsPrefix(p, q) == Len(p) <= Len(q) /\ p = SubSeq(q, 1, Len(p))

\* C20: each step of a PublishChannel call is the next one of the protocol;
\* a step that fails ends the call Failed, with the channel not registered by
\* the call (no registration among the steps performed, and the registry left
\* as it was); the step that ends the call with success is the last one, all
\* the others (window reserved, channel mapped, base and size written back)
\* performed before, and the channel is registered.
C20_PublishRegistersIffSuccess ==
    [][\A c \in Cpus :
          P_Step(c)
              => LET h == hc[c]
                     step == PublishSteps[Len(h.steps) + 1]
                 IN  /\ IsPrefix(h.steps, PublishSteps)
                     /\ hc'[c].st \in {"Executing", "Failed", "Completed"}
                     /\ hc'[c].st = "Executing"
                           => hc'[c].steps = Append(h.steps, step)
                     /\ hc'[c].st = "Failed"
                           => /\ \A k \in DOMAIN h.steps :
                                    h.steps[k] # "insert_channel"
                              /\ channels' = channels
                     /\ hc'[c].st = "Completed"
                           => /\ step = "insert_channel"
                              /\ {h.steps[k] : k \in DOMAIN h.steps}
                                   = {"read_from_guest_of", "alloc_ivc_channel",
                                      "IVCChannel::alloc", "map_region",
                                      "write_base", "write_size"}
                              /\ Registered(channels', h.vm, AsUsize(h.args[1]))]_vars

\* C20 witness: the PublishChannel call of one VM has succeeded and a
\* channel of that VM is registered, while the PublishChannel call of another
\* has failed and no channel of that VM is registered.
C20_Witness ==
    \E c \in Cpus, d \in Cpus :
        /\ hc[c].st = "Completed" /\ hc[c].code = "HIVCPublishChannel"
        /\ \E key \in ChannelKeys : Registered(channels, VmOf(c), AsUsize(key))
        /\ hc[d].st = "Failed" /\ hc[d].code = "HIVCPublishChannel"
        /\ \A key \in ChannelKeys : ~Registered(channels, VmOf(d), AsUsize(key))

====
